---- MODULE Spec2Model ----
(***************************************************************************)
(* Gravitational N-body engine of galaxysimulater: the Barnes-Hut octree,  *)
(* the two force strategies, the leapfrog integrator and the diagnostics   *)
(* of GalaxyOptimized (galaxy_simulation_optimized.py) and Galaxy          *)
(* (galaxy_simulation.py).                                                 *)
(*                                                                         *)
(* Numbers.  Positions, velocities, masses, dt and softening are integers  *)
(* (a fixed-point grid standing for the float arrays).  The octree         *)
(* geometry and the mass aggregates are exact rationals: a scalar is a     *)
(* pair <<n, d>> with d > 0, a vector is [num |-> <<x,y,z>>, den |-> d].   *)
(* The force kernel G*m*M*dr/(r2*sqrt(r2)) is irrational; it is rounded    *)
(* toward zero to the grid, as a float operation rounds its result.        *)
(***************************************************************************)
EXTENDS Integers, Sequences, FiniteSets, TLC

VARIABLES
    positions,    \* self.positions : sequence of integer 3-vectors
    velocities,   \* self.velocities
    masses,       \* self.masses
    softening,    \* self.softening
    dt,           \* self.dt
    theta,        \* self.theta, a rational <<n, d>>
    status,       \* "ok", or the exception that ended the program
    pc,           \* position inside build_octree / the driver
    root,         \* the octree being built, or the one `forces` came from
    next_idx,     \* loop index of build_octree's insertion loop
    forces,       \* the forces array last returned by a force evaluation
    strategy,     \* which strategy produced `forces`
    steps,        \* number of update calls made
    prev,         \* positions/velocities at the entry of the last update
    last_op,      \* the last operation the driver called
    result        \* the value the last diagnostics call returned

vars == <<positions, velocities, masses, softening, dt, theta, status, pc, root,
          next_idx, forces, strategy, steps, prev, last_op, result>>

(***************************************************************************)
(* Bounds of the model.                                                    *)
(***************************************************************************)
MaxBodies == 3      \* largest n_bodies of the octree and force specifications
MaxSimBodies == 2   \* largest n_bodies of the integration specification
MaxSteps == 2       \* update calls per behaviour
MaxDepth == 12      \* recursion depth at which _insert_body gives up (RecursionError)

(***************************************************************************)
(* Program constants.                                                      *)
(***************************************************************************)
G == 1              \* self.G
None == -1          \* body_index = None
NoChildren == <<>>  \* children = None
NoTree == [none |-> TRUE]   \* build_octree's `return None`

(***************************************************************************)
(* Input sets.                                                             *)
(***************************************************************************)
Points == { <<0,0,0>>, <<1,0,0>>, <<1,1,0>>, <<0,0,1>>, <<4,4,4>>, <<-8,8,8>> }
MassValues == {3, 8}
Axes == 1..3

(***************************************************************************)
(* Integer helpers.                                                        *)
(***************************************************************************)
Abs(x) == IF x < 0 THEN -x ELSE x

Max2(a, b) == IF a >= b THEN a ELSE b

Min2(a, b) == IF a <= b THEN a ELSE b

RECURSIVE Gcd(_, _)
Gcd(a, b) == IF b = 0 THEN a ELSE Gcd(b, a % b)

\* division rounding toward zero (b > 0)
TDiv(a, b) == IF a >= 0 THEN a \div b ELSE -((-a) \div b)

RECURSIVE SqrtSearch(_, _, _)
SqrtSearch(n, lo, hi) ==
    IF lo >= hi THEN lo
    ELSE LET mid == (lo + hi + 1) \div 2
         IN IF mid * mid <= n THEN SqrtSearch(n, mid, hi)
            ELSE SqrtSearch(n, lo, mid - 1)

\* floor of the square root
ISqrt(n) == SqrtSearch(n, 0, Min2(n, 46340))

(***************************************************************************)
(* Exact rationals.                                                        *)
(***************************************************************************)
Rat(n, d) ==
    LET g == Gcd(Abs(n), Abs(d))
        s == IF d < 0 THEN -1 ELSE 1
    IN <<(s * n) \div g, (s * d) \div g>>

RLess(a, b) == a[1] * b[2] < b[1] * a[2]

RMul(a, b) == Rat(a[1] * b[1], a[2] * b[2])

RVec(num, den) ==
    LET g == Gcd(Gcd(Gcd(Abs(num[1]), Abs(num[2])), Abs(num[3])), den)
    IN [num |-> <<num[1] \div g, num[2] \div g, num[3] \div g>>, den |-> den \div g]

IntVec(p) == [num |-> p, den |-> 1]

\* a + s * b for rational vectors a, b and a rational scalar s
RVecAddScaled(a, s, b) ==
    LET bd == b.den * s[2]
        g == Gcd(a.den, bd)
    IN RVec([k \in Axes |-> a.num[k] * (bd \div g) + s[1] * b.num[k] * (a.den \div g)],
            a.den * (bd \div g))

\* component k of the integer point p is greater than component k of c
CoordGreater(p, c, k) == p[k] * c.den > c.num[k]

\* the float vector 0/0: every component is nan, and nan is absorbing
NaNValue == 1000000007

NaN3 == <<NaNValue, NaNValue, NaNValue>>

IsNaN(a) == a[1] = NaNValue

VAdd(a, b) ==
    IF IsNaN(a) \/ IsNaN(b) THEN NaN3
    ELSE <<a[1] + b[1], a[2] + b[2], a[3] + b[3]>>

VSub(a, b) ==
    IF IsNaN(a) \/ IsNaN(b) THEN NaN3
    ELSE <<a[1] - b[1], a[2] - b[2], a[3] - b[3]>>

VScale(s, a) == IF IsNaN(a) THEN NaN3 ELSE <<s * a[1], s * a[2], s * a[3]>>

VNeg(a) == IF IsNaN(a) THEN NaN3 ELSE <<-a[1], -a[2], -a[3]>>

VTDiv(a, b) ==
    IF IsNaN(a) THEN NaN3 ELSE <<TDiv(a[1], b), TDiv(a[2], b), TDiv(a[3], b)>>

Zero3 == <<0, 0, 0>>

ZeroVecs(n) == [i \in 1..n |-> Zero3]

Dot(a, b) == a[1] * b[1] + a[2] * b[2] + a[3] * b[3]

Bodies(m) == 1..Len(m)

\* Op applied to the value of v: v is evaluated once, as an assignment to a
\* local variable evaluates its right-hand side once
Let(v, Op(_)) == CHOOSE y \in {Op(x) : x \in {v}} : TRUE

(***************************************************************************)
(* OctreeNode and the octree construction.  Bodies are numbered from 1     *)
(* here (from 0 in the source); octants keep the source's 0..7.            *)
(***************************************************************************)
\* OctreeNode(center=center, size=size): the dataclass defaults
OctreeNode(center, size) ==
    [center |-> center, size |-> size, total_mass |-> 0,
     center_of_mass |-> IntVec(Zero3), body_index |-> None,
     children |-> NoChildren]

\* mutant: the x and z bits are exchanged, against _create_children's order
get_octant_xz_swapped(node, position) ==
    (IF CoordGreater(position, node.center, 1) THEN 4 ELSE 0)
  + (IF CoordGreater(position, node.center, 2) THEN 2 ELSE 0)
  + (IF CoordGreater(position, node.center, 3) THEN 1 ELSE 0)

\* _get_octant: bit k set when position[k] > node.center[k]; octants are 0..7
get_octant(node, position) ==
    (IF CoordGreater(position, node.center, 1) THEN 1 ELSE 0)
  + (IF CoordGreater(position, node.center, 2) THEN 2 ELSE 0)
  + (IF CoordGreater(position, node.center, 3) THEN 4 ELSE 0)

\* the sign of offset component k of child i: i & 2^(k-1) == 0 gives -half_size
OffsetSign(i, k) ==
    LET bit == IF k = 1 THEN i % 2 ELSE IF k = 2 THEN (i \div 2) % 2 ELSE (i \div 4) % 2
    IN IF bit = 0 THEN -1 ELSE 1

\* _create_children: child i (0..7, here at index i+1) at center + offset/2
create_children(node) ==
    LET half_size == RMul(node.size, <<1, 2>>)
    IN [c \in 1..8 |->
          LET offset == [num |-> <<OffsetSign(c - 1, 1) * half_size[1],
                                   OffsetSign(c - 1, 2) * half_size[1],
                                   OffsetSign(c - 1, 3) * half_size[1]>>,
                         den |-> half_size[2]]
          IN OctreeNode(RVecAddScaled(node.center, <<1, 2>>, offset), half_size)]

\* the empty-node branch of _insert_body: the node becomes a leaf
make_leaf(node, body_idx, pos, m) ==
    [node EXCEPT !.body_index = body_idx,
                 !.total_mass = m[body_idx],
                 !.center_of_mass = IntVec(pos[body_idx])]

\* mutant: the body slot is not cleared when the leaf is subdivided
split_leaf_keeps_body(node) ==
    [node EXCEPT !.children = create_children(node)]

\* the leaf branch of _insert_body: create the children, clear the body slot
split_leaf(node) ==
    [node EXCEPT !.children = create_children(node), !.body_index = None]

\* mutant: the node forgets to add the new body's mass
updated_total_forgets(total, mass) == total

\* node.total_mass += self.masses[body_idx]
updated_total(total, mass) == total + mass

\* mutant: the old centre of mass is weighted with the new total
updated_com_new_weight(com, total, pos, mass) ==
    RVec([k \in Axes |-> com.num[k] * total + pos[k] * mass * com.den],
         com.den * total)

\* the running centre of mass: (com * (total - m) + pos * m) / total,
\* total being the mass already increased
updated_com(com, total, pos, mass) ==
    RVec([k \in Axes |-> com.num[k] * (total - mass) + pos[k] * mass * com.den],
         com.den * total)

\* _insert_body.  The result is [node, overflow]: overflow stands for the
\* RecursionError Python raises when the recursion does not end.
RECURSIVE insert_body(_, _, _, _, _)
insert_body(node, body_idx, pos, m, depth) ==
    IF depth > MaxDepth THEN [node |-> node, overflow |-> TRUE]
    ELSE IF node.body_index = None /\ node.children = NoChildren
    THEN [node |-> make_leaf(node, body_idx, pos, m), overflow |-> FALSE]
    ELSE
      Let(\* create the children and reinsert the old body
          IF node.children = NoChildren
          THEN Let(split_leaf(node), LAMBDA n1 :
                 Let(get_octant(n1, pos[node.body_index]), LAMBDA child_idx :
                   Let(insert_body(n1.children[child_idx + 1], node.body_index,
                                   pos, m, depth + 1), LAMBDA sub :
                     [node |-> [n1 EXCEPT !.children[child_idx + 1] = sub.node],
                      overflow |-> sub.overflow])))
          ELSE [node |-> node, overflow |-> FALSE],
          LAMBDA r1 :
            IF r1.overflow THEN r1
            ELSE
              \* insert the new body, then update mass and centre of mass
              Let(get_octant(r1.node, pos[body_idx]), LAMBDA child_idx :
                Let(insert_body(r1.node.children[child_idx + 1], body_idx,
                                pos, m, depth + 1), LAMBDA sub :
                  IF sub.overflow THEN [node |-> r1.node, overflow |-> TRUE]
                  ELSE
                    Let(updated_total(r1.node.total_mass, m[body_idx]),
                        LAMBDA new_total :
                      [node |-> [r1.node EXCEPT
                          !.children[child_idx + 1] = sub.node,
                          !.total_mass = new_total,
                          !.center_of_mass =
                              updated_com(r1.node.center_of_mass, new_total,
                                          pos[body_idx], m[body_idx])],
                       overflow |-> FALSE]))))

MinCoord(pos, k) == CHOOSE v \in {pos[i][k] : i \in DOMAIN pos} :
                        \A i \in DOMAIN pos : v <= pos[i][k]

MaxCoord(pos, k) == CHOOSE v \in {pos[i][k] : i \in DOMAIN pos} :
                        \A i \in DOMAIN pos : v >= pos[i][k]

\* build_octree up to the creation of the root: the bounding box, its
\* midpoint and 1.1 times its largest dimension
root_node(pos) ==
    LET min_pos == [k \in Axes |-> MinCoord(pos, k)]
        max_pos == [k \in Axes |-> MaxCoord(pos, k)]
        extent == Max2(Max2(max_pos[1] - min_pos[1], max_pos[2] - min_pos[2]),
                       max_pos[3] - min_pos[3])
        center == RVec([k \in Axes |-> min_pos[k] + max_pos[k]], 2)
        size == Rat(extent * 11, 10)
    IN OctreeNode(center, size)

\* the insertion loop of build_octree from body `from` on
RECURSIVE insert_from(_, _, _, _)
insert_from(r, from, pos, m) ==
    IF r.overflow \/ from > Len(pos) THEN r
    ELSE Let(insert_body(r.node, from, pos, m, 0),
             LAMBDA r2 : insert_from(r2, from + 1, pos, m))

\* build_octree as one call: [node, overflow], node = NoTree for no bodies
build_octree(pos, m) ==
    IF Len(pos) = 0 THEN [node |-> NoTree, overflow |-> FALSE]
    ELSE insert_from([node |-> root_node(pos), overflow |-> FALSE], 1, pos, m)

(***************************************************************************)
(* Force evaluation.                                                       *)
(***************************************************************************)
\* G * m_i * M * dr / (r2 * r) with dr = drnum/den, r2 = |dr|^2 + soft^2 and
\* r = sqrt(r2); with A = |drnum|^2 + soft^2 * den^2 this is
\* G * m_i * M * drnum * den^2 / (A * sqrt(A)), rounded toward zero.
\* A = 0 (dr = 0 and no softening) is 0/0 in every component.
kernel(mi, M, drnum, den, soft) ==
    LET A == Dot(drnum, drnum) + soft * soft * den * den
        cube == A * ISqrt(A)
    IN IF A = 0 THEN NaN3 ELSE
       <<TDiv(G * mi * M * drnum[1] * den * den, cube),
         TDiv(G * mi * M * drnum[2] * den * den, cube),
         TDiv(G * mi * M * drnum[3] * den * den, cube)>>

\* the pair term of the Direct strategy: F for the pair (i, j)
pair_force(i, j, pos, m, soft) ==
    kernel(m[i], m[j], VSub(pos[j], pos[i]), 1, soft)

\* the (i, j) visited by the two loops of calculate_forces_direct, in order
RECURSIVE direct_pairs_from(_, _, _)
direct_pairs_from(i, j, n) ==
    IF i > n THEN <<>>
    ELSE IF j > n THEN direct_pairs_from(i + 1, i + 2, n)
    ELSE <<(<<i, j>>)>> \o direct_pairs_from(i, j + 1, n)

direct_pairs(n) == direct_pairs_from(1, 2, n)

\* mutant: the reaction on body j is left out
apply_pair_one_sided(f, i, j, F) == [f EXCEPT ![i] = VAdd(f[i], F)]

\* mutant: the pair's force is added to both bodies
apply_pair_same_sign(f, i, j, F) ==
    [f EXCEPT ![i] = VAdd(f[i], F), ![j] = VAdd(f[j], F)]

\* forces[i] += F; forces[j] -= F
apply_pair(f, i, j, F) ==
    [f EXCEPT ![i] = VAdd(f[i], F), ![j] = VSub(f[j], F)]

RECURSIVE direct_loop(_, _, _, _, _, _)
direct_loop(f, pairs, k, pos, m, soft) ==
    IF k > Len(pairs) THEN f
    ELSE Let(apply_pair(f, pairs[k][1], pairs[k][2],
                        pair_force(pairs[k][1], pairs[k][2], pos, m, soft)),
             LAMBDA f2 : direct_loop(f2, pairs, k + 1, pos, m, soft))

\* calculate_forces_direct / Galaxy.calculate_forces
calculate_forces_direct(pos, m, soft) ==
    direct_loop(ZeroVecs(Len(pos)), direct_pairs(Len(pos)), 1, pos, m, soft)

\* dr = node.center_of_mass - self.positions[body_idx], as numerator over
\* the denominator of center_of_mass
dr_num(node, body_idx, pos) ==
    VSub(node.center_of_mass.num, VScale(node.center_of_mass.den, pos[body_idx]))

\* mutant: the criterion is inverted (size / r > theta)
opening_test_inverted(node, A, den, th) ==
    \/ A = 0
    \/ th[1] <= 0
    \/ (node.size[1] * den * th[2]) * (node.size[1] * den * th[2])
          > (th[1] * node.size[2]) * (th[1] * node.size[2]) * A

\* mutant: a leaf is used whatever body it holds, the body itself included
is_other_leaf_any(node, body_idx) == node.body_index # None

\* node.body_index is not None and node.body_index != body_idx
is_other_leaf(node, body_idx) ==
    node.body_index # None /\ node.body_index # body_idx

\* node.size / r < self.theta with r = sqrt(A)/den.  r = 0 gives inf or
\* nan, and the comparison is False; for theta <= 0 it is False as size/r >= 0
opening_test(node, A, den, th) ==
    /\ A > 0
    /\ th[1] > 0
    /\ (node.size[1] * den * th[2]) * (node.size[1] * den * th[2])
          < (th[1] * node.size[2]) * (th[1] * node.size[2]) * A

\* The contributions calculate_force_on_body sums, in traversal order:
\* "leaf" is a leaf holding another body, "approx" an internal node used
\* as a single body.
RECURSIVE bh_terms(_, _, _, _, _, _)
RECURSIVE bh_children(_, _, _, _, _, _, _)
bh_terms(body_idx, node, pos, m, soft, th) ==
    IF node = NoTree THEN <<>>
    ELSE IF node.total_mass = 0 THEN <<>>
    ELSE
      LET drn == dr_num(node, body_idx, pos)
          den == node.center_of_mass.den
          A == Dot(drn, drn) + soft * soft * den * den
      IN IF is_other_leaf(node, body_idx)
         THEN <<[kind |-> "leaf", body |-> node.body_index,
                 mass |-> node.total_mass, drnum |-> drn, den |-> den]>>
         ELSE IF node.children # NoChildren
         THEN IF opening_test(node, A, den, th)
              THEN <<[kind |-> "approx", body |-> None,
                      mass |-> node.total_mass, drnum |-> drn, den |-> den]>>
              ELSE bh_children(body_idx, node, 1, pos, m, soft, th)
         ELSE <<>>

\* for child in node.children: force += calculate_force_on_body(body_idx, child)
bh_children(body_idx, node, c, pos, m, soft, th) ==
    IF c > Len(node.children) THEN <<>>
    ELSE bh_terms(body_idx, node.children[c], pos, m, soft, th)
         \o bh_children(body_idx, node, c + 1, pos, m, soft, th)

\* the sum of the forces of terms k.. of the traversal
RECURSIVE sum_terms(_, _, _, _)
sum_terms(terms, k, mi, soft) ==
    IF k > Len(terms) THEN Zero3
    ELSE VAdd(kernel(mi, terms[k].mass, terms[k].drnum, terms[k].den, soft),
              sum_terms(terms, k + 1, mi, soft))

\* calculate_force_on_body
calculate_force_on_body(body_idx, node, pos, m, soft, th) ==
    Let(bh_terms(body_idx, node, pos, m, soft, th),
        LAMBDA terms : sum_terms(terms, 1, m[body_idx], soft))

\* calculate_forces_barnes_hut: [forces, root, overflow]
calculate_forces_barnes_hut(pos, m, soft, th) ==
    Let(build_octree(pos, m), LAMBDA t :
        [root |-> t.node,
         overflow |-> t.overflow,
         forces |-> IF t.overflow THEN <<>>
                    ELSE [i \in 1..Len(pos) |->
                            calculate_force_on_body(i, t.node, pos, m, soft, th)]])

(***************************************************************************)
(* The leapfrog step.                                                      *)
(***************************************************************************)
\* one force evaluation of update: [forces, root, overflow]
force_eval(pos, m, soft, th, use_barnes_hut) ==
    IF use_barnes_hut THEN calculate_forces_barnes_hut(pos, m, soft, th)
    ELSE [root |-> NoTree, overflow |-> FALSE,
          forces |-> calculate_forces_direct(pos, m, soft)]

\* accelerations = forces / masses; velocities += accelerations * dt * 0.5
half_kick(vel, f, m, dtv) ==
    [i \in 1..Len(vel) |->
        VAdd(vel[i], VTDiv(VScale(dtv, VTDiv(f[i], m[i])), 2))]

\* positions += velocities * dt
drift(pos, vel, dtv) ==
    [i \in 1..Len(pos) |-> VAdd(pos[i], VScale(dtv, vel[i]))]

\* mutant: the second kick reuses the forces of the first evaluation
second_forces_stale(e1, pos, m, soft, th, use_barnes_hut) == e1

\* the second force evaluation of update, at the drifted positions
second_forces(e1, pos, m, soft, th, use_barnes_hut) ==
    force_eval(pos, m, soft, th, use_barnes_hut)

\* update(use_barnes_hut): the state it leaves.  A RecursionError raised by
\* build_octree ends the call where it is: in the first evaluation nothing
\* has been written yet, in the second the first kick and the drift have.
update_result(pos, vel, m, soft, dtv, th, use_barnes_hut) ==
    Let(force_eval(pos, m, soft, th, use_barnes_hut), LAMBDA e1 :
      IF e1.overflow
      THEN [status |-> "RecursionError", positions |-> pos, velocities |-> vel,
            forces |-> <<>>, root |-> NoTree]
      ELSE
        Let(half_kick(vel, e1.forces, m, dtv), LAMBDA v1 :
          Let(drift(pos, v1, dtv), LAMBDA x1 :
            Let(second_forces(e1, x1, m, soft, th, use_barnes_hut), LAMBDA e2 :
              IF e2.overflow
              THEN [status |-> "RecursionError", positions |-> x1,
                    velocities |-> v1, forces |-> <<>>, root |-> NoTree]
              ELSE [status |-> "ok", positions |-> x1,
                    velocities |-> half_kick(v1, e2.forces, m, dtv),
                    forces |-> e2.forces, root |-> e2.root]))))

(***************************************************************************)
(* Diagnostics.                                                            *)
(***************************************************************************)
RAdd(a, b) == Rat(a[1] * b[2] + b[1] * a[2], a[2] * b[2])

Cross(a, b) ==
    <<a[2] * b[3] - a[3] * b[2], a[3] * b[1] - a[1] * b[3], a[1] * b[2] - a[2] * b[1]>>

RECURSIVE SumTo(_, _)
SumTo(f, n) == IF n = 0 THEN 0 ELSE f[n] + SumTo(f, n - 1)

\* the -G * m_i * m_j / r of the pairs (i, j), j > i, below the sample limit
RECURSIVE potential_from(_, _, _, _, _, _)
potential_from(i, j, lim, pos, m, soft) ==
    IF i > lim THEN 0
    ELSE IF j > lim THEN potential_from(i + 1, i + 2, lim, pos, m, soft)
    ELSE potential_from(i, j + 1, lim, pos, m, soft)
         - TDiv(G * m[i] * m[j],
                ISqrt(Dot(VSub(pos[j], pos[i]), VSub(pos[j], pos[i])) + soft * soft))

\* get_energy: (kinetic, potential, kinetic + potential).  The sample of
\* 1000 bodies is the whole set here, and the rescaling branch is not taken.
get_energy(pos, vel, m, soft) ==
    Let(Rat(SumTo([i \in 1..Len(m) |-> m[i] * Dot(vel[i], vel[i])], Len(m)), 2),
        LAMBDA kinetic :
      Let(potential_from(1, 2, Min2(1000, Len(m)), pos, m, soft), LAMBDA potential :
        [kinetic |-> kinetic, potential |-> <<potential, 1>>,
         total |-> RAdd(kinetic, <<potential, 1>>)]))

\* a float quotient that may be inf or nan
FloatDiv(a, b) ==
    IF b[1] # 0 THEN [kind |-> "num", value |-> Rat(a[1] * b[2], a[2] * b[1])]
    ELSE IF a[1] = 0 THEN [kind |-> "nan", value |-> <<0, 1>>]
    ELSE [kind |-> "inf", value |-> <<0, 1>>]

\* np.sum(masses[:, np.newaxis] * np.cross(positions, velocities)): no axis
\* is given, so the sum runs over the bodies and over the three components.
\* An array value is the sequence of its numbers: the result holds one.
angular_momentum(pos, vel, m) ==
    << SumTo([i \in 1..Len(m) |->
                m[i] * Cross(pos[i], vel[i])[1] + m[i] * Cross(pos[i], vel[i])[2]
                  + m[i] * Cross(pos[i], vel[i])[3]], Len(m)) >>

\* get_statistics
get_statistics(pos, vel, m, soft) ==
    Let(get_energy(pos, vel, m, soft), LAMBDA e :
        [kinetic_energy |-> e.kinetic,
         potential_energy |-> e.potential,
         total_energy |-> e.total,
         angular_momentum |-> angular_momentum(pos, vel, m),
         center_of_mass |->
            RVec([k \in Axes |-> SumTo([i \in 1..Len(m) |-> m[i] * pos[i][k]], Len(m))],
                 SumTo(m, Len(m))),
         virial_ratio |->
            FloatDiv(RMul(<<2, 1>>, e.kinetic), <<Abs(e.potential[1]), 1>>)])

(***************************************************************************)
(* Tree walks used to state properties.                                    *)
(***************************************************************************)
RECURSIVE AllNodes(_)
AllNodes(node) ==
    {node} \cup UNION {AllNodes(node.children[c]) : c \in DOMAIN node.children}

RECURSIVE LeafBodies(_)
LeafBodies(node) ==
    (IF node.body_index = None THEN {} ELSE {node.body_index})
    \cup UNION {LeafBodies(node.children[c]) : c \in DOMAIN node.children}

RECURSIVE TreeDepth(_)
TreeDepth(node) ==
    IF node.children = NoChildren THEN 0
    ELSE 1 + (CHOOSE d \in {TreeDepth(node.children[c]) : c \in 1..8} :
                 \A c \in 1..8 : d >= TreeDepth(node.children[c]))

RECURSIVE SumMass(_, _)
SumMass(S, m) ==
    IF S = {} THEN 0
    ELSE LET b == CHOOSE x \in S : TRUE IN m[b] + SumMass(S \ {b}, m)

\* sum over the bodies of S of mass * position component k
RECURSIVE SumMoment(_, _, _, _)
SumMoment(S, pos, m, k) ==
    IF S = {} THEN 0
    ELSE LET b == CHOOSE x \in S : TRUE
         IN m[b] * pos[b][k] + SumMoment(S \ {b}, pos, m, k)

IsEmpty(n) == n.body_index = None /\ n.children = NoChildren

IsLeaf(n) == n.body_index # None /\ n.children = NoChildren

IsInternal(n) == n.body_index = None /\ Len(n.children) = 8

(***************************************************************************)
(* State shared by the specifications.                                     *)
(***************************************************************************)
\* the body sets: n bodies at pairwise distinct points, positive masses
BodySets(maxn) ==
    UNION {{ps \in [1..n -> Points] : \A i, j \in 1..n : i # j => ps[i] # ps[j]}
           : n \in 1..maxn}

NoResult == [op |-> "none"]

NoPrev == [positions |-> <<>>, velocities |-> <<>>]

(***************************************************************************)
(* SpecTree: build_octree as a process, one _insert_body call per step.    *)
(***************************************************************************)
InitTree ==
    /\ positions \in BodySets(MaxBodies)
    /\ masses \in [1..Len(positions) -> MassValues]
    /\ velocities = ZeroVecs(Len(positions))
    /\ softening = 0
    /\ dt = 2
    /\ theta = <<1, 2>>
    /\ status = "ok"
    /\ pc = "idle"
    /\ root = NoTree
    /\ next_idx = 1
    /\ forces = <<>>
    /\ strategy = "none"
    /\ steps = 0
    /\ prev = NoPrev
    /\ last_op = "init"
    /\ result = NoResult

\* build_octree, lines 178-185: the root cube
BuildOctreeBegin ==
    /\ pc = "idle" /\ status = "ok"
    /\ Len(positions) > 0
    /\ root' = root_node(positions)
    /\ next_idx' = 1
    /\ pc' = "inserting"
    /\ UNCHANGED <<positions, velocities, masses, softening, dt, theta, status,
                   forces, strategy, steps, prev, last_op, result>>

\* build_octree, lines 187-188: one iteration of the insertion loop
InsertBody ==
    /\ pc = "inserting" /\ status = "ok"
    /\ next_idx <= Len(positions)
    /\ \E r \in {insert_body(root, next_idx, positions, masses, 0)} :
          IF r.overflow
          THEN /\ status' = "RecursionError"
               /\ UNCHANGED <<root, next_idx>>
          ELSE /\ root' = r.node
               /\ next_idx' = next_idx + 1
               /\ UNCHANGED status
    /\ UNCHANGED <<positions, velocities, masses, softening, dt, theta, pc,
                   forces, strategy, steps, prev, last_op, result>>

\* build_octree, line 190: return root
BuildOctreeReturn ==
    /\ pc = "inserting" /\ status = "ok"
    /\ next_idx > Len(positions)
    /\ pc' = "built"
    /\ UNCHANGED <<positions, velocities, masses, softening, dt, theta, status,
                   root, next_idx, forces, strategy, steps, prev, last_op, result>>

NextTree == BuildOctreeBegin \/ InsertBody \/ BuildOctreeReturn

SpecTree == InitTree /\ [][NextTree]_vars

\* the bodies inserted so far
Inserted == 1..(next_idx - 1)

TreeStarted == pc \in {"inserting", "built"} /\ status = "ok"

(***************************************************************************)
(* C1: after every _insert_body call of build_octree, and so after the     *)
(* whole build, the root's total_mass is the sum of the masses of the      *)
(* bodies inserted so far.                                                 *)
(***************************************************************************)
C1_RootMass ==
    (TreeStarted /\ next_idx > 1) =>
        root.total_mass = SumMass(Inserted, masses)

C1_Witness ==
    /\ pc = "built" /\ Len(positions) = 3
    /\ TreeDepth(root) >= 2
    /\ root.total_mass = SumMass(1..3, masses)

(***************************************************************************)
(* C2: after every completed top-level _insert_body call each node of the  *)
(* tree is empty, a leaf with one body index and no children, or internal  *)
(* with exactly 8 children and no body index; never a body and children.   *)
(***************************************************************************)
C2_NodeStates ==
    TreeStarted =>
        \A n \in AllNodes(root) :
            /\ IsEmpty(n) \/ IsLeaf(n) \/ IsInternal(n)
            /\ ~(n.body_index # None /\ n.children # NoChildren)
            /\ n.body_index # None => n.body_index \in Inserted

C2_Witness ==
    /\ TreeStarted /\ next_idx = 3
    /\ TreeDepth(root) >= 2
    /\ \E a, b, c \in AllNodes(root) : IsEmpty(a) /\ IsLeaf(b) /\ IsInternal(c)

(***************************************************************************)
(* C3: every internal node's total_mass is the sum of the masses of the    *)
(* bodies in its descendant leaves, and center_of_mass * total_mass is the *)
(* sum of mass * position over the same bodies.                            *)
(***************************************************************************)
C3_Aggregates ==
    TreeStarted =>
        \A n \in AllNodes(root) :
            IsInternal(n) =>
                LET S == LeafBodies(n)
                IN /\ n.total_mass = SumMass(S, masses)
                   /\ \A k \in Axes :
                        n.center_of_mass.num[k] * n.total_mass
                            = SumMoment(S, positions, masses, k) * n.center_of_mass.den

C3_Witness ==
    /\ pc = "built" /\ Len(positions) = 3
    /\ \E n \in AllNodes(root) :
          /\ n # root /\ IsInternal(n)
          /\ Cardinality(LeafBodies(n)) = 2
          /\ n.center_of_mass.den > 1
    /\ Cardinality(LeafBodies(root)) = 3

(***************************************************************************)
(* SpecForce: one force evaluation at a time on a fixed body set, under    *)
(* either strategy.                                                        *)
(***************************************************************************)
\* (softening, theta) of the force evaluations
ForceConfigs ==
    { [softening |-> 0, theta |-> <<0, 1>>], [softening |-> 1, theta |-> <<0, 1>>],
      [softening |-> 0, theta |-> <<1, 2>>], [softening |-> 1, theta |-> <<3, 4>>] }

InitForce ==
    /\ positions \in BodySets(MaxBodies)
    /\ masses \in [1..Len(positions) -> MassValues]
    /\ velocities = ZeroVecs(Len(positions))
    /\ \E c \in ForceConfigs : softening = c.softening /\ theta = c.theta
    /\ dt = 2
    /\ status = "ok"
    /\ pc = "idle"
    /\ root = NoTree
    /\ next_idx = 1
    /\ forces = <<>>
    /\ strategy = "none"
    /\ steps = 0
    /\ prev = NoPrev
    /\ last_op = "init"
    /\ result = NoResult

\* forces = self.calculate_forces_direct()
CalcForcesDirect ==
    /\ status = "ok"
    /\ forces' = calculate_forces_direct(positions, masses, softening)
    /\ strategy' = "direct"
    /\ root' = NoTree
    /\ last_op' = "calculate_forces_direct"
    /\ UNCHANGED <<positions, velocities, masses, softening, dt, theta, status,
                   pc, next_idx, steps, prev, result>>

\* forces = self.calculate_forces_barnes_hut()
CalcForcesBarnesHut ==
    /\ status = "ok"
    /\ \E r \in {calculate_forces_barnes_hut(positions, masses, softening, theta)} :
          IF r.overflow
          THEN /\ status' = "RecursionError"
               /\ UNCHANGED <<forces, strategy, root>>
          ELSE /\ forces' = r.forces
               /\ root' = r.root
               /\ strategy' = "barnes_hut"
               /\ UNCHANGED status
    /\ last_op' = "calculate_forces_barnes_hut"
    /\ UNCHANGED <<positions, velocities, masses, softening, dt, theta,
                   pc, next_idx, steps, prev, result>>

NextForce == CalcForcesDirect \/ CalcForcesBarnesHut

SpecForce == InitForce /\ [][NextForce]_vars

N == Len(positions)

RECURSIVE SumVecs(_, _, _)
SumVecs(f, S, acc) ==
    IF S = {} THEN acc
    ELSE LET j == CHOOSE x \in S : TRUE IN SumVecs(f, S \ {j}, VAdd(acc, f[j]))

\* the force body j exerts on body i, computed from body i's side
PairTerm(i, j) ==
    kernel(masses[i], masses[j], VSub(positions[j], positions[i]), 1, softening)

\* the sum over the other bodies of the pair terms of body i
PairwiseSum(i) ==
    SumVecs([j \in 1..N |-> PairTerm(i, j)], (1..N) \ {i}, Zero3)

\* what the Direct loop adds to forces[i] for the pair {i, j}
DirectContribution(i, j) ==
    IF i < j THEN pair_force(i, j, positions, masses, softening)
    ELSE VNeg(pair_force(j, i, positions, masses, softening))

(***************************************************************************)
(* C4: the Direct loops visit every pair i < j exactly once; the pair's F  *)
(* goes to body i and -F to body j, so each body's force is the sum of     *)
(* its pair terms and the term of j on i is the negation of that of i on j.*)
(***************************************************************************)
C4_PairsOnceAntisymmetric ==
    strategy = "direct" =>
        LET pairs == direct_pairs(N)
        IN /\ \A i, j \in 1..N :
                Cardinality({k \in 1..Len(pairs) : pairs[k] = <<i, j>>})
                    = IF i < j THEN 1 ELSE 0
           /\ \A i \in 1..N :
                forces[i] = SumVecs([j \in 1..N |-> DirectContribution(i, j)],
                                    (1..N) \ {i}, Zero3)
           /\ \A i, j \in 1..N :
                i # j => /\ DirectContribution(i, j) = PairTerm(i, j)
                         /\ PairTerm(i, j) = VNeg(PairTerm(j, i))
           /\ N = 2 => forces[1] = VNeg(forces[2])

C4_Witness ==
    /\ strategy = "direct" /\ N = 3
    /\ \A i \in 1..3 : forces[i] # Zero3
    /\ \A i, j \in 1..3 : i # j => PairTerm(i, j) # Zero3

(***************************************************************************)
(* C5: with theta = 0 the traversal for body i approximates no internal    *)
(* node and sums exactly one term per other body j, the Direct term of     *)
(* the pair; Barnes-Hut and Direct return the same forces.                 *)
(***************************************************************************)
TraversalTerms(i) == bh_terms(i, root, positions, masses, softening, theta)

C5_ThetaZeroIsDirect ==
    (strategy = "barnes_hut" /\ theta = <<0, 1>>) =>
        /\ \A i \in 1..N :
             LET terms == TraversalTerms(i)
             IN /\ \A k \in 1..Len(terms) : terms[k].kind = "leaf"
                /\ \A j \in 1..N :
                     Cardinality({k \in 1..Len(terms) : terms[k].body = j})
                         = IF j = i THEN 0 ELSE 1
                /\ \A k \in 1..Len(terms) :
                     kernel(masses[i], terms[k].mass, terms[k].drnum,
                            terms[k].den, softening)
                         = DirectContribution(i, terms[k].body)
        /\ forces = calculate_forces_direct(positions, masses, softening)

C5_Witness ==
    /\ strategy = "barnes_hut" /\ theta = <<0, 1>> /\ N = 3
    /\ TreeDepth(root) >= 2
    /\ \A i \in 1..3 : forces[i] # Zero3

(***************************************************************************)
(* C6: with a single body the force on it is the zero vector under both    *)
(* strategies, whatever theta, softening and the position.                 *)
(***************************************************************************)
C6_SingleBodyZero ==
    (N = 1 /\ strategy # "none") => forces = <<Zero3>>

C6_Witness ==
    /\ N = 1 /\ strategy = "barnes_hut" /\ forces = <<Zero3>>
    /\ softening = 0 /\ positions[1] # Zero3 /\ root.body_index = 1

(***************************************************************************)
(* SpecSim: the driver's loop: update with either strategy, and the        *)
(* diagnostics, on a small body set.                                       *)
(***************************************************************************)
SimPoints == { <<0,0,0>>, <<2,-2,2>>, <<1,0,0>> }

SimVelocities == { Zero3, <<1,-1,1>> }

\* (dt, softening, theta): the last two are outside the valid ranges
SimConfigs ==
    { [dt |-> 2, softening |-> 1, theta |-> <<1, 2>>],
      [dt |-> 2, softening |-> 1, theta |-> <<0, 1>>],
      [dt |-> -2, softening |-> 1, theta |-> <<1, 2>>],
      [dt |-> 2, softening |-> -1, theta |-> <<-1, 2>>] }

InitSim ==
    /\ \E n \in 1..MaxSimBodies :
          /\ positions \in {ps \in [1..n -> SimPoints] :
                              \A i, j \in 1..n : i # j => ps[i] # ps[j]}
          /\ velocities \in [1..n -> SimVelocities]
          /\ masses \in [1..n -> MassValues]
    /\ \E c \in SimConfigs :
          dt = c.dt /\ softening = c.softening /\ theta = c.theta
    /\ status = "ok"
    /\ pc = "idle"
    /\ root = NoTree
    /\ next_idx = 1
    /\ forces = <<>>
    /\ strategy = "none"
    /\ steps = 0
    /\ prev = NoPrev
    /\ last_op = "init"
    /\ result = NoResult

\* galaxy.update(use_barnes_hut)
Update ==
    /\ status = "ok"
    /\ steps < MaxSteps
    /\ \E use_barnes_hut \in BOOLEAN :
         \E r \in {update_result(positions, velocities, masses, softening, dt,
                                 theta, use_barnes_hut)} :
            /\ positions' = r.positions
            /\ velocities' = r.velocities
            /\ status' = r.status
            /\ forces' = r.forces
            /\ root' = r.root
            /\ strategy' = IF use_barnes_hut THEN "barnes_hut" ELSE "direct"
    /\ steps' = steps + 1
    /\ prev' = [positions |-> positions, velocities |-> velocities]
    /\ last_op' = "update"
    /\ UNCHANGED <<masses, softening, dt, theta, pc, next_idx, result>>

\* mutant: the kinetic-energy sum squares self.velocities in place
GetEnergySquaresInPlace ==
    /\ status = "ok"
    /\ result' = [op |-> "get_energy",
                  energy |-> get_energy(positions, velocities, masses, softening)]
    /\ velocities' = [i \in 1..Len(velocities) |->
                        <<velocities[i][1] * velocities[i][1],
                          velocities[i][2] * velocities[i][2],
                          velocities[i][3] * velocities[i][3]>>]
    /\ last_op' = "get_energy"
    /\ UNCHANGED <<positions, masses, softening, dt, theta, status,
                   pc, root, next_idx, forces, strategy, steps, prev>>

\* galaxy.get_energy()
GetEnergy ==
    /\ status = "ok"
    /\ result' = [op |-> "get_energy",
                  energy |-> get_energy(positions, velocities, masses, softening)]
    /\ last_op' = "get_energy"
    /\ UNCHANGED <<positions, velocities, masses, softening, dt, theta, status,
                   pc, root, next_idx, forces, strategy, steps, prev>>

\* galaxy.get_statistics()
GetStatistics ==
    /\ status = "ok"
    /\ \E st \in {get_statistics(positions, velocities, masses, softening)} :
          result' = [op |-> "get_statistics",
                     energy |-> [kinetic |-> st.kinetic_energy,
                                 potential |-> st.potential_energy,
                                 total |-> st.total_energy],
                     statistics |-> st]
    /\ last_op' = "get_statistics"
    /\ UNCHANGED <<positions, velocities, masses, softening, dt, theta, status,
                   pc, root, next_idx, forces, strategy, steps, prev>>

NextSim == Update \/ GetEnergy \/ GetStatistics

SpecSim == InitSim /\ [][NextSim]_vars

UsedBarnesHut == strategy = "barnes_hut"

\* the last update went through the five phases in order, from the state
\* at its entry: F(x0), kick, drift, F(x1) with the same strategy, kick
LeapfrogOrder ==
    \E e1 \in {force_eval(prev.positions, masses, softening, theta, UsedBarnesHut)} :
      /\ ~e1.overflow
      /\ \E v1 \in {half_kick(prev.velocities, e1.forces, masses, dt)} :
         \E x1 \in {drift(prev.positions, v1, dt)} :
         \E e2 \in {force_eval(x1, masses, softening, theta, UsedBarnesHut)} :
           /\ ~e2.overflow
           /\ positions = x1
           /\ velocities = half_kick(v1, e2.forces, masses, dt)
           /\ forces = e2.forces
           /\ root = e2.root

C7_OrderWhenUpdateReturns ==
    (last_op = "update" /\ status = "ok") => LeapfrogOrder

(***************************************************************************)
(* C8: the step is time-reversible: where update returns, update with the  *)
(* time step negated brings positions and velocities back exactly.         *)
(***************************************************************************)
C8_TimeReversible ==
    (last_op = "update" /\ status = "ok") =>
        \E back \in {update_result(positions, velocities, masses, softening,
                                   -dt, theta, UsedBarnesHut)} :
            /\ back.status = "ok"
            /\ back.positions = prev.positions
            /\ back.velocities = prev.velocities

C8_Witness ==
    /\ last_op = "update" /\ status = "ok" /\ steps = 2 /\ UsedBarnesHut
    /\ \A i \in 1..N : positions[i] # prev.positions[i]
    /\ \A i \in 1..N : velocities[i] # prev.velocities[i]
    /\ N = 2

(***************************************************************************)
(* C9: get_energy and get_statistics leave positions, velocities, masses   *)
(* and the parameters unchanged, and a diagnostics call that follows       *)
(* another one with no update in between returns the same values.          *)
(***************************************************************************)
Diagnostics == {"get_energy", "get_statistics"}

C9_DiagnosticsReadOnly ==
    [][ last_op' \in Diagnostics =>
          /\ UNCHANGED <<positions, velocities, masses, softening, dt, theta>>
          /\ last_op \in Diagnostics => result'.energy = result.energy
          /\ (last_op = "get_statistics" /\ last_op' = "get_statistics")
                => result' = result ]_vars

C9_Witness ==
    /\ last_op = "get_statistics" /\ steps = 2 /\ N = 2
    /\ result.energy.kinetic # <<0, 1>>
    /\ result.energy.potential # <<0, 1>>
    /\ result.statistics.angular_momentum # <<0>>

(***************************************************************************)
(* C10: with an invalid configuration (a mass <= 0, dt <= 0, softening < 0 *)
(* or theta < 0) update ends in a configuration error before it modifies   *)
(* any position or velocity.                                               *)
(***************************************************************************)
ConfigInvalid ==
    \/ \E i \in 1..N : masses[i] <= 0
    \/ dt <= 0
    \/ softening < 0
    \/ RLess(theta, <<0, 1>>)

C10_FailFast ==
    (ConfigInvalid /\ last_op = "update") =>
        /\ status = "ConfigurationError"
        /\ positions = prev.positions
        /\ velocities = prev.velocities

(***************************************************************************)
(* SpecDegenerate: build_octree on any body set, coincident positions      *)
(* included (the arrays are public and update moves the bodies freely).    *)
(***************************************************************************)
\* the body sets of n bodies at any points, equal points allowed
AnyBodySets(maxn) == UNION {[1..n -> Points] : n \in 1..maxn}

InitDegenerate ==
    /\ positions \in AnyBodySets(MaxBodies)
    /\ masses \in [1..Len(positions) -> MassValues]
    /\ velocities = ZeroVecs(Len(positions))
    /\ softening = 0
    /\ dt = 2
    /\ theta = <<1, 2>>
    /\ status = "ok"
    /\ pc = "idle"
    /\ root = NoTree
    /\ next_idx = 1
    /\ forces = <<>>
    /\ strategy = "none"
    /\ steps = 0
    /\ prev = NoPrev
    /\ last_op = "init"
    /\ result = NoResult

SpecDegenerate == InitDegenerate /\ [][NextTree]_vars

\* two bodies of the set are at the same point
HasCoincident == \E i, j \in 1..N : i # j /\ positions[i] = positions[j]

(***************************************************************************)
(* C11: build_octree ends for every body set, degenerate ones included:    *)
(* the subdivision stops after a bounded number of levels (a degeneracy    *)
(* signal or an aggregate leaf), it never runs on until the interpreter's  *)
(* recursion limit ends it.                                                *)
(***************************************************************************)
C11_BuildTerminates ==
    /\ status # "RecursionError"
    /\ (pc = "built" /\ HasCoincident) => TreeDepth(root) < MaxDepth

\* what the code does instead: no build on a set with coincident bodies
\* ever returns, and every build on distinct bodies does
C11_CoincidentNeverBuilt ==
    /\ pc = "built" => ~HasCoincident
    /\ status = "RecursionError" => HasCoincident

\* component k of sum_i m_i * (pos_i x v_i)
AngularMomentumComponent(k) ==
    SumTo([i \in 1..N |-> masses[i] * Cross(positions[i], velocities[i])[k]], N)

(***************************************************************************)
(* C12: the angular momentum get_statistics reports is the 3-vector of the *)
(* per-component sums over the bodies of m_i * (pos_i x v_i); the three    *)
(* components are not added into one number.                               *)
(***************************************************************************)
C12_AngularMomentumVector ==
    last_op = "get_statistics" =>
        result.statistics.angular_momentum
            = <<AngularMomentumComponent(1), AngularMomentumComponent(2),
                AngularMomentumComponent(3)>>

\* what the code reports: one number, the sum of the three components
C12_AngularMomentumCollapsed ==
    last_op = "get_statistics" =>
        result.statistics.angular_momentum
            = <<AngularMomentumComponent(1) + AngularMomentumComponent(2)
                + AngularMomentumComponent(3)>>

\* the root cube exists: build_octree is past line 185
RootBuilt == pc \in {"inserting", "built"}

\* |pos[k] - node.center[k]| < node.size / 2
StrictlyInsideOnAxis(p, node, k) ==
    2 * node.size[2] * Abs(p[k] * node.center.den - node.center.num[k])
        < node.size[1] * node.center.den

(***************************************************************************)
(* C14: for every nonempty body set the root cube of build_octree holds    *)
(* every body strictly inside: |pos_i - center| < size/2 on each axis,     *)
(* also for N = 1 and for a bounding box of zero extent.                   *)
(***************************************************************************)
C14_RootStrictlyContains ==
    RootBuilt =>
        \A i \in 1..N : \A k \in Axes : StrictlyInsideOnAxis(positions[i], root, k)

\* what the code guarantees: strictly inside when the box has some extent,
\* and a root cube of size 0 otherwise
C14_StrictUnlessZeroExtent ==
    RootBuilt =>
        IF \A i, j \in 1..N : positions[i] = positions[j]
        THEN root.size = <<0, 1>>
        ELSE \A i \in 1..N : \A k \in Axes :
                StrictlyInsideOnAxis(positions[i], root, k)

\* |pos[k] - node.center[k]| <= node.size / 2
InsideOnAxis(p, node, k) ==
    2 * node.size[2] * Abs(p[k] * node.center.den - node.center.num[k])
        <= node.size[1] * node.center.den

\* the leaves that hold body b
LeavesOf(b) == {n \in AllNodes(root) : n.body_index = b}

(***************************************************************************)
(* C16: on pairwise distinct positions every inserted body is the          *)
(* body_index of exactly one leaf, and its position lies in the cube       *)
(* (boundary included) of that leaf and of every ancestor of it: the       *)
(* octant of _get_octant is the child cube of _create_children.            *)
(***************************************************************************)
C16_OneLeafInsideCubes ==
    TreeStarted =>
        /\ \A b \in Inserted : Cardinality(LeavesOf(b)) = 1
        /\ LeafBodies(root) = Inserted
        /\ \A n \in AllNodes(root) : \A b \in LeafBodies(n) : \A k \in Axes :
              InsideOnAxis(positions[b], n, k)

C16_Witness ==
    /\ pc = "built" /\ N = 3 /\ TreeDepth(root) >= 2
    /\ \A b \in 1..3 : Cardinality(LeavesOf(b)) = 1
    /\ \E n \in AllNodes(root) :
          /\ IsLeaf(n) /\ n.size # root.size
          /\ \E k \in Axes : 2 * n.size[2] * Abs(positions[n.body_index][k] * n.center.den
                                                  - n.center.num[k])
                               = n.size[1] * n.center.den

\* |center_of_mass - pos_i|^2 * den^2, without and with the softening term
PlainDist2(n, i) == Dot(dr_num(n, i, positions), dr_num(n, i, positions))

SoftenedDist2(n, i) ==
    PlainDist2(n, i) + softening * softening * n.center_of_mass.den * n.center_of_mass.den

\* node n is used as one point mass by the traversal for body i
Approximated(n, i) == opening_test(n, SoftenedDist2(n, i), n.center_of_mass.den, theta)

\* the internal nodes the traversal for body i reaches: the children of a
\* node are reached when the node is not used as a point mass
RECURSIVE VisitedInternal(_, _)
VisitedInternal(n, i) ==
    IF n = NoTree THEN {}
    ELSE IF n.children = NoChildren \/ n.total_mass = 0 THEN {}
    ELSE {n} \cup (IF Approximated(n, i) THEN {}
                   ELSE UNION {VisitedInternal(n.children[c], i) : c \in 1..8})

\* size < theta * |center_of_mass - pos_i|, the plain Euclidean distance
PlainCriterion(n, i) ==
    /\ theta[1] > 0
    /\ (n.size[1] * n.center_of_mass.den * theta[2])
         * (n.size[1] * n.center_of_mass.den * theta[2])
       < (theta[1] * n.size[2]) * (theta[1] * n.size[2]) * PlainDist2(n, i)

\* size < theta * sqrt(|center_of_mass - pos_i|^2 + softening^2)
SoftenedCriterion(n, i) ==
    /\ theta[1] > 0
    /\ (n.size[1] * n.center_of_mass.den * theta[2])
         * (n.size[1] * n.center_of_mass.den * theta[2])
       < (theta[1] * n.size[2]) * (theta[1] * n.size[2]) * SoftenedDist2(n, i)

(***************************************************************************)
(* C13: an internal node met by the traversal for body i is used as one    *)
(* point mass exactly when size < theta * |center_of_mass - pos_i|, the    *)
(* distance taken without the softening term, for every softening >= 0.    *)
(***************************************************************************)
C13_PlainOpeningCriterion ==
    (strategy = "barnes_hut" /\ softening >= 0) =>
        \A i \in 1..N : \A n \in VisitedInternal(root, i) :
            Approximated(n, i) <=> PlainCriterion(n, i)

\* what the code compares: the softened distance it uses for the force
C13_SoftenedOpeningCriterion ==
    strategy = "barnes_hut" =>
        \A i \in 1..N : \A n \in VisitedInternal(root, i) :
            /\ Approximated(n, i) <=> SoftenedCriterion(n, i)
            /\ softening = 0 => (Approximated(n, i) <=> PlainCriterion(n, i))

(***************************************************************************)
(* C17: the Barnes-Hut force on body i holds no contribution of body i's   *)
(* own mass: no internal node whose subtree contains i is used as a point  *)
(* mass in the traversal for i, and the leaf of i contributes nothing,     *)
(* for every theta in [0, 1) and softening >= 0.                           *)
(***************************************************************************)
C17_NoSelfContribution ==
    (strategy = "barnes_hut" /\ softening >= 0
        /\ ~RLess(theta, <<0, 1>>) /\ RLess(theta, <<1, 1>>)) =>
        \A i \in 1..N :
            /\ \A n \in VisitedInternal(root, i) :
                  Approximated(n, i) => i \notin LeafBodies(n)
            /\ \A k \in 1..Len(TraversalTerms(i)) : TraversalTerms(i)[k].body # i

\* what the code guarantees about the body's own mass: its own leaf is
\* skipped, so no leaf term of the traversal for i is body i
C17_OwnLeafSkipped ==
    strategy = "barnes_hut" =>
        \A i \in 1..N : \A k \in 1..Len(TraversalTerms(i)) :
            TraversalTerms(i)[k].body # i

(***************************************************************************)
(* SpecParallel: calculate_forces_barnes_hut with the iterations of its    *)
(* per-body loop taken in any order, one calculate_force_on_body call per  *)
(* step.  pc is [at, done]: where the call is and the slots written.       *)
(***************************************************************************)
ParallelConfigs ==
    { [softening |-> 0, theta |-> <<7, 8>>], [softening |-> 1, theta |-> <<3, 4>>] }

InitParallel ==
    /\ positions \in BodySets(MaxBodies)
    /\ masses \in [1..Len(positions) -> MassValues]
    /\ velocities = ZeroVecs(Len(positions))
    /\ \E c \in ParallelConfigs : softening = c.softening /\ theta = c.theta
    /\ dt = 2
    /\ status = "ok"
    /\ pc = [at |-> "idle", done |-> {}]
    /\ root = NoTree
    /\ next_idx = 1
    /\ forces = <<>>
    /\ strategy = "none"
    /\ steps = 0
    /\ prev = NoPrev
    /\ last_op = "init"
    /\ result = NoResult

\* lines 273-276: self.root = self.build_octree(); forces = np.zeros((n, 3))
BarnesHutBegin ==
    /\ status = "ok" /\ pc.at = "idle"
    /\ \E t \in {build_octree(positions, masses)} :
          IF t.overflow
          THEN /\ status' = "RecursionError"
               /\ UNCHANGED <<root, forces, pc>>
          ELSE /\ root' = t.node
               /\ forces' = ZeroVecs(Len(positions))
               /\ pc' = [at |-> "traversing", done |-> {}]
               /\ UNCHANGED status
    /\ UNCHANGED <<positions, velocities, masses, softening, dt, theta,
                   next_idx, strategy, steps, prev, last_op, result>>

\* mutant: the traversal accumulates into one array shared by all bodies,
\* so a slot also holds what was summed for the bodies done before
ForceOnBodySharedAccumulator ==
    /\ status = "ok" /\ pc.at = "traversing"
    /\ \E i \in (1..Len(positions)) \ pc.done :
          /\ forces' = [forces EXCEPT ![i] =
                          VAdd(SumVecs(forces, pc.done, Zero3),
                               calculate_force_on_body(i, root, positions, masses,
                                                       softening, theta))]
          /\ pc' = [pc EXCEPT !.done = pc.done \cup {i}]
    /\ UNCHANGED <<positions, velocities, masses, softening, dt, theta, status,
                   root, next_idx, strategy, steps, prev, last_op, result>>

\* line 279, for a body i not yet done:
\* forces[i] = self.calculate_force_on_body(i, self.root)
ForceOnBody ==
    /\ status = "ok" /\ pc.at = "traversing"
    /\ \E i \in (1..Len(positions)) \ pc.done :
          /\ forces' = [forces EXCEPT ![i] =
                          calculate_force_on_body(i, root, positions, masses,
                                                  softening, theta)]
          /\ pc' = [pc EXCEPT !.done = pc.done \cup {i}]
    /\ UNCHANGED <<positions, velocities, masses, softening, dt, theta, status,
                   root, next_idx, strategy, steps, prev, last_op, result>>

\* line 281: return forces
BarnesHutReturn ==
    /\ status = "ok" /\ pc.at = "traversing"
    /\ pc.done = 1..Len(positions)
    /\ pc' = [pc EXCEPT !.at = "returned"]
    /\ strategy' = "barnes_hut"
    /\ last_op' = "calculate_forces_barnes_hut"
    /\ UNCHANGED <<positions, velocities, masses, softening, dt, theta, status,
                   root, next_idx, forces, steps, prev, result>>

NextParallel == BarnesHutBegin \/ ForceOnBody \/ BarnesHutReturn

SpecParallel == InitParallel /\ [][NextParallel]_vars

(***************************************************************************)
(* C15: once the tree is built, a calculate_force_on_body call for body i  *)
(* changes neither the tree nor positions, velocities or masses and writes *)
(* output slot i only; in whatever order the bodies are taken, the forces  *)
(* array returned is the one of the sequential loop.                       *)
(***************************************************************************)
C15_OrderIndependent ==
    [][ /\ (pc.at = "traversing" /\ pc'.at = "traversing") =>
              /\ UNCHANGED <<root, positions, velocities, masses>>
              /\ \E i \in 1..N :
                    /\ pc'.done = pc.done \cup {i} /\ i \notin pc.done
                    /\ \A j \in (1..N) \ {i} : forces'[j] = forces[j]
        /\ pc'.at = "returned" =>
              forces' = calculate_forces_barnes_hut(positions, masses,
                                                    softening, theta).forces
      ]_vars

\* bodies 3 and 2 are done before body 1, against the order of the loop
C15_Witness ==
    /\ pc.at = "traversing" /\ pc.done = {2, 3} /\ N = 3
    /\ TreeDepth(root) >= 2
    /\ forces[2] # Zero3 /\ forces[3] # Zero3 /\ forces[2] # forces[3]

\* total linear momentum: sum over the bodies of m_i * v_i
Momentum(vel) ==
    [k \in Axes |-> SumTo([i \in 1..N |-> masses[i] * vel[i][k]], N)]

\* the half-kick with forces f rounds nothing: f / m and (f / m) * dt / 2
\* are on the grid
ExactKick(f) ==
    \A i \in 1..N : \A k \in Axes :
        /\ f[i][k] % masses[i] = 0
        /\ (dt * (f[i][k] \div masses[i])) % 2 = 0

(***************************************************************************)
(* C18: the forces of a Direct evaluation sum to the zero vector, so an    *)
(* update with use_barnes_hut = False leaves the total linear momentum     *)
(* unchanged where the arithmetic is exact, and update leaves the masses   *)
(* and the number of bodies unchanged.                                     *)
(***************************************************************************)
C18_DirectConservesMomentum ==
    [][ (last_op' = "update" /\ strategy' = "direct") =>
          \E F0 \in {calculate_forces_direct(positions, masses, softening)} :
            /\ SumVecs(F0, 1..N, Zero3) = Zero3
            /\ SumVecs(forces', 1..N, Zero3) = Zero3
            /\ masses' = masses
            /\ Len(positions') = N /\ Len(velocities') = N
            /\ (ExactKick(F0) /\ ExactKick(forces'))
                  => Momentum(velocities') = Momentum(velocities)
      ]_vars

C18_Witness ==
    /\ last_op = "update" /\ strategy = "direct" /\ steps = 2 /\ N = 2
    /\ ExactKick(calculate_forces_direct(prev.positions, masses, softening))
    /\ ExactKick(forces)
    /\ velocities # prev.velocities
    /\ Momentum(velocities) # Zero3

====
